---- MODULE Spec2Model ----
(***************************************************************************)
(* Model of src/droneConfig.cc: the main function of an ns-3 mmWave/EPC    *)
(* scenario script.  main is straight-line code; every statement group is  *)
(* one step, written as an operator from the state of a run to the state   *)
(* after the step.  The state of a run is a record holding main's locals,  *)
(* the attribute defaults written with Config::SetDefault, the helper      *)
(* objects, the nodes/devices/interfaces the script asks the framework to  *)
(* create, and the history of the steps executed so far.                   *)
(*                                                                         *)
(* The command line is the input: a sequence of arguments --name=text,     *)
(* handled from left to right.  A text is a sequence of characters, empty  *)
(* for a bare --name.  Only the six registered options appear as names.    *)
(* CommandLine reads a text with the stream extraction of the type of the  *)
(* local bound to the option, and ends the process on a text it rejects.   *)
(* A double is held as a decimal m * 10^e with m not a multiple of 10;     *)
(* texts are short enough for every decimal to be in the range of double.  *)
(***************************************************************************)
EXTENDS Integers, Sequences, FiniteSets, TLC

VARIABLES run, twin

vars == <<run, twin>>

-----------------------------------------------------------------------------
(* Bounds of the input space *)

MaxArgs == 2

MaxNodes == 2

MaxSimTime == 1

MaxInterval == 2

(* Program constants *)

DefaultNumEnb == 1

DefaultNumUe == 1

DefaultSimTime == 2

DefaultInterPacketInterval == 100

MinDistance == 10

MaxDistance == 150

ReportBufferStatusTimerUs == 100

P2pMtu == 1500

RemoteHostIfIndex == 1

UInt16Max == 65535

-----------------------------------------------------------------------------
(* Characters and texts *)

DigitChars == <<"0", "1", "2", "3", "4", "5", "6", "7", "8", "9">>

IsDigit(c) == \E k \in 1..Len(DigitChars) : DigitChars[k] = c

DigitValue(c) == (CHOOSE k \in 1..Len(DigitChars) : DigitChars[k] = c) - 1

(* The decimal numeral of a natural number *)
RECURSIVE DecimalText(_)
DecimalText(n) ==
    IF n < 10 THEN <<DigitChars[n + 1]>>
    ELSE Append(DecimalText(n \div 10), DigitChars[(n % 10) + 1])

TxtBare == << >>

TxtTrue == <<"t", "r", "u", "e">>

TxtFalse == <<"f", "a", "l", "s", "e">>

TxtCapTrue == <<"T", "r", "u", "e">>

TxtYes == <<"y", "e", "s">>

TxtZeroOne == <<"0", "1">>

TxtMinusOne == <<"-", "1">>

TxtTwoX == <<"2", "x">>

TxtTooBig == <<"6", "5", "5", "3", "6">>

TxtHalf == <<"0", ".", "5">>

TxtX == <<"x">>

TxtOneE2 == <<"1", "e", "2">>

TxtTabTwo == <<"\t", "2">>

TxtVtOne == <<"", "1">>

-----------------------------------------------------------------------------
(* Input domains *)

NodeCountTexts ==
    {DecimalText(n) : n \in 0..MaxNodes} \cup {TxtBare, TxtMinusOne, TxtTwoX, TxtTooBig, TxtTabTwo, TxtVtOne}

SimTimeTexts == {DecimalText(t) : t \in 1..MaxSimTime} \cup {TxtHalf, TxtX}

IntervalTexts == {DecimalText(50 * k) : k \in 1..MaxInterval} \cup {TxtOneE2}

BoolTexts == {TxtBare, TxtTrue, TxtFalse, TxtCapTrue, TxtYes, TxtZeroOne}

TimingNames == {"simTime", "interPacketInterval"}

(* The options of CommandLine itself that print and leave with status 0 *)
HelpNames == {"PrintHelp", "help"}

(* A name that is no option of the program and none of the framework *)
UnknownName == "foo"

Arguments ==
    [name : {"numEnb", "numUe"}, text : NodeCountTexts]
        \cup [name : {"simTime"}, text : SimTimeTexts]
        \cup [name : {"interPacketInterval"}, text : IntervalTexts]
        \cup [name : {"harq", "rlcAm"}, text : BoolTexts]
        \cup [name : {"PrintHelp", UnknownName}, text : {TxtBare}]

CommandLines == UNION {[1..n -> Arguments] : n \in 0..MaxArgs}

-----------------------------------------------------------------------------
(* Attribute names *)

RlcAmAttr == "ns3::MmWaveHelper::RlcAmEnabled"

HarqAttr == "ns3::MmWaveHelper::HarqEnabled"

SchedHarqAttr == "ns3::MmWaveFlexTtiMacScheduler::HarqEnabled"

RlcAmTimerAttr == "ns3::LteRlcAm::ReportBufferStatusTimer"

RlcUmTimerAttr == "ns3::LteRlcUmLowLat::ReportBufferStatusTimer"

SchedulerType == "ns3::MmWaveFlexTtiMacScheduler"

-----------------------------------------------------------------------------
(* Addresses: an IPv4 address or mask is a tuple of four octets *)

RECURSIVE BitAnd(_, _)
BitAnd(a, b) ==
    IF a = 0 \/ b = 0 THEN 0
    ELSE (a % 2) * (b % 2) + 2 * BitAnd(a \div 2, b \div 2)

CombineMask(addr, mask) == [i \in 1..4 |-> BitAnd(addr[i], mask[i])]

InternetBase == <<1, 0, 0, 0>>

InternetMask == <<255, 0, 0, 0>>

UeNetwork == <<7, 0, 0, 0>>

UeMask == <<255, 0, 0, 0>>

Loopback ==
    [dev |-> <<"loopback">>, addr |-> <<127, 0, 0, 1>>, mask |-> <<255, 0, 0, 0>>]

(* The address the address helper hands out as its n-th address: the *)
(* base taken as a 32-bit number, plus n                              *)
AddressNumber(a) == ((a[1] * 256 + a[2]) * 256 + a[3]) * 256 + a[4]

NumberAddress(v) ==
    <<(v \div 16777216) % 256, (v \div 65536) % 256, (v \div 256) % 256, v % 256>>

NewAddress(base, n) == NumberAddress(AddressNumber(base) + n)

-----------------------------------------------------------------------------
(* Helpers of the steps *)

Event(s, name) == Append(s.trace, name)

(* Decimals: the value m * 10^e, normalised *)
RECURSIVE Normalise(_, _)
Normalise(m, e) ==
    IF m = 0 THEN [m |-> 0, e |-> 0]
    ELSE IF m % 10 = 0 THEN Normalise(m \div 10, e + 1)
    ELSE [m |-> m, e |-> e]

Decimal(n) == Normalise(n, 0)

RECURSIVE Power10(_)
Power10(k) == IF k <= 0 THEN 1 ELSE 10 * Power10(k - 1)

(* Stream extraction: leading white space is skipped *)
WhiteSpace == {" ", "\t", "\n", "", "\f", "\r"}

RECURSIVE SkipSpaces(_, _)
SkipSpaces(txt, i) ==
    IF i <= Len(txt) /\ txt[i] \in WhiteSpace THEN SkipSpaces(txt, i + 1) ELSE i

(* The first position from i on that holds no digit *)
RECURSIVE DigitsEnd(_, _)
DigitsEnd(txt, i) ==
    IF i <= Len(txt) /\ IsDigit(txt[i]) THEN DigitsEnd(txt, i + 1) ELSE i

(* The number written by the digits at positions i .. j-1 *)
RECURSIVE DigitsValue(_, _, _)
DigitsValue(txt, i, j) ==
    IF j <= i THEN 0
    ELSE 10 * DigitsValue(txt, i, j - 1) + DigitValue(txt[j - 1])

(* The integer at the head of a text: spaces, a sign, digits; what *)
(* follows the digits is left unread                                *)
ScanDigits(txt, i, signed, d) ==
    [sentry |-> i <= Len(txt),
     found |-> DigitsEnd(txt, d) > d,
     neg |-> signed /\ txt[i] = "-",
     mag |-> DigitsValue(txt, d, DigitsEnd(txt, d))]

ScanSign(txt, i, signed) == ScanDigits(txt, i, signed, IF signed THEN i + 1 ELSE i)

ScanFrom(txt, i) == ScanSign(txt, i, i <= Len(txt) /\ txt[i] \in {"+", "-"})

ScanInt(txt) == ScanFrom(txt, SkipSpaces(txt, 1))

(* iss >> dest for a uint16_t: nothing to read leaves dest as it is, no *)
(* digits stores 0, a magnitude out of range stores the maximum, and a  *)
(* minus sign negates modulo 2^16                                       *)
UInt16Of(cur, x) ==
    IF ~x.sentry THEN [ok |-> FALSE, val |-> cur]
    ELSE IF ~x.found THEN [ok |-> FALSE, val |-> 0]
    ELSE IF x.mag > UInt16Max THEN [ok |-> FALSE, val |-> UInt16Max]
    ELSE [ok |-> TRUE,
          val |-> IF x.neg THEN (UInt16Max + 1 - x.mag) % (UInt16Max + 1)
                  ELSE x.mag]

ExtractUInt16(cur, txt) == UInt16Of(cur, ScanInt(txt))

(* iss >> dest for a bool: the integer read must be 0 or 1; any other *)
(* integer stores true and fails, no digits stores false and fails    *)
BoolOf(cur, x) ==
    IF ~x.sentry THEN [ok |-> FALSE, val |-> cur]
    ELSE IF ~x.found THEN [ok |-> FALSE, val |-> FALSE]
    ELSE IF x.mag = 0 THEN [ok |-> TRUE, val |-> FALSE]
    ELSE IF x.mag = 1 /\ ~x.neg THEN [ok |-> TRUE, val |-> TRUE]
    ELSE [ok |-> FALSE, val |-> TRUE]

ExtractBool(cur, txt) == BoolOf(cur, ScanInt(txt))

(* iss >> dest for a double, in the order the characters are taken:     *)
(* spaces, a sign, digits with at most one point, and an exponent once   *)
(* a digit was read.  The characters taken must form a complete number,  *)
(* otherwise 0 is stored and the read fails; with nothing to read dest   *)
(* is left as it is.  The scan is a record: sentry (there is something   *)
(* to read), neg, the integer digits at d .. e1-1, the fraction digits   *)
(* at f .. e2-1, hasExp, expNeg, the exponent digits at xd .. xe-1.      *)
DoubleOf(cur, txt, x) ==
    IF ~x.sentry THEN [ok |-> FALSE, val |-> cur]
    ELSE IF (x.e1 = x.d /\ x.e2 = x.f) \/ (x.hasExp /\ x.xe = x.xd)
    THEN [ok |-> FALSE, val |-> Decimal(0)]
    ELSE [ok |-> TRUE,
          val |-> Normalise(
                    (IF x.neg THEN 0 - 1 ELSE 1)
                      * (DigitsValue(txt, x.d, x.e1) * Power10(x.e2 - x.f)
                           + DigitsValue(txt, x.f, x.e2)),
                    (IF x.expNeg THEN 0 - 1 ELSE 1) * DigitsValue(txt, x.xd, x.xe)
                      - (x.e2 - x.f))]

ScanExponentDigits(txt, x) == [x EXCEPT !.xe = DigitsEnd(txt, x.xd)]

ScanExponentSign(txt, x) ==
    IF x.hasExp /\ x.e2 + 1 <= Len(txt) /\ txt[x.e2 + 1] \in {"+", "-"}
    THEN [x EXCEPT !.expNeg = txt[x.e2 + 1] = "-", !.xd = x.e2 + 2, !.xe = x.e2 + 2]
    ELSE IF x.hasExp
    THEN [x EXCEPT !.xd = x.e2 + 1, !.xe = x.e2 + 1]
    ELSE [x EXCEPT !.xd = x.e2, !.xe = x.e2]

ScanExponentMark(txt, x) ==
    [x EXCEPT !.hasExp = /\ (x.e1 > x.d \/ x.e2 > x.f)
                         /\ x.e2 <= Len(txt)
                         /\ txt[x.e2] \in {"e", "E"}]

ScanFraction(txt, x) == [x EXCEPT !.e2 = DigitsEnd(txt, x.f)]

ScanPoint(txt, x) ==
    IF x.e1 <= Len(txt) /\ txt[x.e1] = "."
    THEN [x EXCEPT !.f = x.e1 + 1, !.e2 = x.e1 + 1]
    ELSE [x EXCEPT !.f = x.e1, !.e2 = x.e1]

ScanIntegerDigits(txt, x) == [x EXCEPT !.e1 = DigitsEnd(txt, x.d)]

ScanDoubleSign(txt, i) ==
    [sentry |-> i <= Len(txt),
     neg |-> i <= Len(txt) /\ txt[i] = "-",
     d |-> IF i <= Len(txt) /\ txt[i] \in {"+", "-"} THEN i + 1 ELSE i,
     e1 |-> i, f |-> i, e2 |-> i,
     hasExp |-> FALSE, expNeg |-> FALSE, xd |-> i, xe |-> i]

ScanDouble(txt) ==
    ScanExponentDigits(txt,
      ScanExponentSign(txt,
        ScanExponentMark(txt,
          ScanFraction(txt,
            ScanPoint(txt,
              ScanIntegerDigits(txt,
                ScanDoubleSign(txt, SkipSpaces(txt, 1))))))))

ExtractDouble(cur, txt) == DoubleOf(cur, txt, ScanDouble(txt))

UpperCase ==
    <<"A", "B", "C", "D", "E", "F", "G", "H", "I", "J", "K", "L", "M",
      "N", "O", "P", "Q", "R", "S", "T", "U", "V", "W", "X", "Y", "Z">>

LowerCase ==
    <<"a", "b", "c", "d", "e", "f", "g", "h", "i", "j", "k", "l", "m",
      "n", "o", "p", "q", "r", "s", "t", "u", "v", "w", "x", "y", "z">>

(* The text of a boolean value is lower-cased before it is compared *)
ToLower(txt) ==
    [i \in 1..Len(txt) |->
        IF \E k \in 1..Len(UpperCase) : UpperCase[k] = txt[i]
        THEN LowerCase[CHOOSE k \in 1..Len(UpperCase) : UpperCase[k] = txt[i]]
        ELSE txt[i]]

TrueTexts == {TxtTrue, <<"t">>}

FalseTexts == {TxtFalse, <<"f">>}

(* CommandLine's handling of the text of a boolean option: no text      *)
(* toggles the local, the words set it, any other text is extracted     *)
ParseBool(cur, txt) ==
    IF txt = TxtBare THEN [ok |-> TRUE, val |-> ~cur]
    ELSE IF ToLower(txt) \in TrueTexts THEN [ok |-> TRUE, val |-> TRUE]
    ELSE IF ToLower(txt) \in FalseTexts THEN [ok |-> TRUE, val |-> FALSE]
    ELSE ExtractBool(cur, ToLower(txt))

HandleArgument_swapped(s, arg) ==
    IF arg.name \in HelpNames
    THEN [ok |-> FALSE, status |-> 0, st |-> s]
    ELSE IF arg.name = "numUe"
    THEN LET r == ExtractUInt16(s.numEnb, arg.text)
         IN [ok |-> r.ok, status |-> 1, st |-> [s EXCEPT !.numEnb = r.val]]
    ELSE IF arg.name = "numEnb"
    THEN LET r == ExtractUInt16(s.numUe, arg.text)
         IN [ok |-> r.ok, status |-> 1, st |-> [s EXCEPT !.numUe = r.val]]
    ELSE IF arg.name = "simTime"
    THEN LET r == ExtractDouble(s.simTime, arg.text)
         IN [ok |-> r.ok, status |-> 1, st |-> [s EXCEPT !.simTime = r.val]]
    ELSE IF arg.name = "interPacketInterval"
    THEN LET r == ExtractDouble(s.interPacketInterval, arg.text)
         IN [ok |-> r.ok, status |-> 1, st |-> [s EXCEPT !.interPacketInterval = r.val]]
    ELSE IF arg.name = "harq"
    THEN LET r == ParseBool(s.harqEnabled, arg.text)
         IN [ok |-> r.ok, status |-> 1, st |-> [s EXCEPT !.harqEnabled = r.val]]
    ELSE IF arg.name = "rlcAm"
    THEN LET r == ParseBool(s.rlcAmEnabled, arg.text)
         IN [ok |-> r.ok, status |-> 1, st |-> [s EXCEPT !.rlcAmEnabled = r.val]]
    ELSE [ok |-> FALSE, status |-> 1, st |-> s]

(* One argument of the command line.  A help option prints and leaves  *)
(* with status 0.  The text of a registered option is read into the    *)
(* local bound to its name by AddValue, whether the read succeeds or   *)
(* not; a failed read leaves with status 1, and so does a name that is *)
(* neither registered nor known to the framework.                      *)
HandleArgument(s, arg) ==
    IF arg.name \in HelpNames
    THEN [ok |-> FALSE, status |-> 0, st |-> s]
    ELSE IF arg.name = "numEnb"
    THEN LET r == ExtractUInt16(s.numEnb, arg.text)
         IN [ok |-> r.ok, status |-> 1, st |-> [s EXCEPT !.numEnb = r.val]]
    ELSE IF arg.name = "numUe"
    THEN LET r == ExtractUInt16(s.numUe, arg.text)
         IN [ok |-> r.ok, status |-> 1, st |-> [s EXCEPT !.numUe = r.val]]
    ELSE IF arg.name = "simTime"
    THEN LET r == ExtractDouble(s.simTime, arg.text)
         IN [ok |-> r.ok, status |-> 1, st |-> [s EXCEPT !.simTime = r.val]]
    ELSE IF arg.name = "interPacketInterval"
    THEN LET r == ExtractDouble(s.interPacketInterval, arg.text)
         IN [ok |-> r.ok, status |-> 1, st |-> [s EXCEPT !.interPacketInterval = r.val]]
    ELSE IF arg.name = "harq"
    THEN LET r == ParseBool(s.harqEnabled, arg.text)
         IN [ok |-> r.ok, status |-> 1, st |-> [s EXCEPT !.harqEnabled = r.val]]
    ELSE IF arg.name = "rlcAm"
    THEN LET r == ParseBool(s.rlcAmEnabled, arg.text)
         IN [ok |-> r.ok, status |-> 1, st |-> [s EXCEPT !.rlcAmEnabled = r.val]]
    ELSE [ok |-> FALSE, status |-> 1, st |-> s]

(* cmd.Parse(argc, argv): the arguments are handled in order, up to *)
(* and including the first one that ends the process                *)
RECURSIVE ParseFrom(_, _)
ParseFrom(s, i) ==
    IF i > Len(s.argv) THEN [ok |-> TRUE, status |-> 0, st |-> s]
    ELSE LET r == HandleArgument(s, s.argv[i])
         IN IF r.ok THEN ParseFrom(r.st, i + 1) ELSE r

CmdParse(s) == ParseFrom(s, 1)

(* Config::SetDefault(name, value) *)
SetDefault(d, name, value) ==
    [n \in DOMAIN d \cup {name} |-> IF n = name THEN value ELSE d[n]]

(* A NodeContainer is held as the number of nodes in it; its i-th node *)
(* (from 0) is the pair of the container's kind and i + 1              *)
Create(c, n) == c + n

Get(kind, i) == <<kind, i + 1>>

NoHelper ==
    [created |-> FALSE, schedulerType |-> "", epcHelper |-> FALSE,
     harqEnabled |-> FALSE, rlcAmEnabled |-> FALSE]

Pgw == <<"pgw", 1>>

NoNode == <<"none", 0>>

-----------------------------------------------------------------------------
(* State of a run at the start of main, after the locals are initialised *)

InitRun(a) ==
    [pc |-> "parseArgs",
     argv |-> a,
     numEnb |-> DefaultNumEnb,
     numUe |-> DefaultNumUe,
     simTime |-> Decimal(DefaultSimTime),
     interPacketInterval |-> Decimal(DefaultInterPacketInterval),
     minDistance |-> MinDistance,
     maxDistance |-> MaxDistance,
     harqEnabled |-> TRUE,
     rlcAmEnabled |-> FALSE,
     defaults |-> << >>,
     mmwaveHelper |-> NoHelper,
     epcHelper |-> FALSE,
     pgw |-> NoNode,
     remoteHostContainer |-> 0,
     remoteHost |-> NoNode,
     ipv4 |-> << >>,
     p2ph |-> << >>,
     internetDevices |-> << >>,
     internetIpIfaces |-> << >>,
     remoteHostAddr |-> <<0, 0, 0, 0>>,
     routes |-> << >>,
     enbNodes |-> 0,
     ueNodes |-> 0,
     exitCode |-> << >>,
     trace |-> << >>]

-----------------------------------------------------------------------------
(* The steps of main *)

(* cmd.Parse at one place of main: on to the next place, or the exit *)
(* of the process from inside the parser                             *)
ParseThen(s, next) ==
    LET r == CmdParse(s)
    IN IF r.ok
       THEN [r.st EXCEPT !.pc = next,
                         !.trace = Event(s, "parseArguments")]
       ELSE [r.st EXCEPT !.pc = "exited",
                         !.exitCode = <<r.status>>,
                         !.trace = Event(s, "parseArguments")]

(* lines 28-35: register the six options and parse the command line *)
ParseArgs(s) == ParseThen(s, "setDefaults")

SetDefaults_interval(s) ==
    [s EXCEPT
       !.defaults =
           SetDefault(
            SetDefault(
             SetDefault(
              SetDefault(
               SetDefault(s.defaults, RlcAmAttr, s.rlcAmEnabled),
               HarqAttr, s.harqEnabled),
              SchedHarqAttr, s.harqEnabled),
             RlcAmTimerAttr, s.interPacketInterval),
            RlcUmTimerAttr, s.interPacketInterval),
       !.pc = "createHelpers",
       !.trace = Event(s, "setDefaults")]

(* lines 37-42: the five Config::SetDefault calls *)
SetDefaults(s) ==
    [s EXCEPT
       !.defaults =
           SetDefault(
            SetDefault(
             SetDefault(
              SetDefault(
               SetDefault(s.defaults, RlcAmAttr, s.rlcAmEnabled),
               HarqAttr, s.harqEnabled),
              SchedHarqAttr, s.harqEnabled),
             RlcAmTimerAttr, Decimal(ReportBufferStatusTimerUs)),
            RlcUmTimerAttr, Decimal(ReportBufferStatusTimerUs)),
       !.pc = "createHelpers",
       !.trace = Event(s, "setDefaults")]

(* lines 44-48: the two helpers.  A created MmWaveHelper takes its        *)
(* attributes from the defaults in force; SetHarqEnabled then writes the  *)
(* local.  The EPC helper brings up the PGW node with an internet stack   *)
(* and its tunnel device on the UE network.                               *)
CreateHelpers(s) ==
    [s EXCEPT
       !.mmwaveHelper =
           [created |-> TRUE,
            schedulerType |-> SchedulerType,
            epcHelper |-> TRUE,
            harqEnabled |-> s.harqEnabled,
            rlcAmEnabled |-> s.defaults[RlcAmAttr]],
       !.epcHelper = TRUE,
       !.ipv4 = (Pgw :> <<Loopback,
                          [dev |-> <<"tun", Pgw>>,
                           addr |-> NewAddress(UeNetwork, 1),
                           mask |-> UeMask]>>),
       !.pc = "configStore",
       !.trace = Event(s, "createHelpers")]

(* lines 50-51: ConfigStore in its default mode loads nothing *)
ConfigureDefaults(s) ==
    [s EXCEPT !.pc = "parseAgain", !.trace = Event(s, "configStore")]

(* line 53: the command line is parsed a second time *)
ParseArgsAgain(s) == ParseThen(s, "remoteHost")

(* lines 55-62: the PGW handle, one remote host with an internet stack *)
CreateRemoteHost(s) ==
    LET c == Create(s.remoteHostContainer, 1)
    IN [s EXCEPT
          !.pgw = Pgw,
          !.remoteHostContainer = c,
          !.remoteHost = Get("remoteHost", 0),
          !.ipv4 = s.ipv4 @@ [n \in {Get("remoteHost", i) : i \in 0..(c - 1)} |->
                                 <<Loopback>>],
          !.pc = "p2pLink",
          !.trace = Event(s, "remoteHost")]

CreateInternetLink_swapped(s) ==
    [s EXCEPT
       !.p2ph = [DataRate |-> "100Gb/s", Mtu |-> P2pMtu, Delay |-> "10ms"],
       !.internetDevices = <<[node |-> s.remoteHost, dev |-> <<"p2p", s.remoteHost>>],
                             [node |-> s.pgw, dev |-> <<"p2p", s.pgw>>]>>,
       !.pc = "assignAddresses",
       !.trace = Event(s, "p2pLink")]

(* lines 65-69: the point-to-point link; the device container holds the *)
(* PGW's device first and the remote host's device second               *)
CreateInternetLink(s) ==
    [s EXCEPT
       !.p2ph = [DataRate |-> "100Gb/s", Mtu |-> P2pMtu, Delay |-> "10ms"],
       !.internetDevices = <<[node |-> s.pgw, dev |-> <<"p2p", s.pgw>>],
                             [node |-> s.remoteHost, dev |-> <<"p2p", s.remoteHost>>]>>,
       !.pc = "assignAddresses",
       !.trace = Event(s, "p2pLink")]

(* Ipv4AddressHelper::Assign on the k-th device of the container: the   *)
(* device becomes a new interface of its node, with the next address    *)
AssignOne(ip, devs, k) ==
    [ip EXCEPT ![devs[k].node] =
        Append(@, [dev |-> devs[k].dev, addr |-> NewAddress(InternetBase, k),
                   mask |-> InternetMask])]

RECURSIVE AssignAll(_, _, _)
AssignAll(ip, devs, k) ==
    IF k > Len(devs) THEN ip ELSE AssignAll(AssignOne(ip, devs, k), devs, k + 1)

(* The interface container entry of the k-th device: (node, interface index) *)
IfaceOf(ip, devs, k) ==
    [node |-> devs[k].node,
     index |-> (CHOOSE i \in 1..Len(ip[devs[k].node]) :
                    ip[devs[k].node][i].dev = devs[k].dev) - 1]

(* Ipv4InterfaceContainer::GetAddress(i) *)
GetAddress(ip, ifaces, i) == ip[ifaces[i + 1].node][ifaces[i + 1].index + 1].addr

(* lines 70-74: addresses of network 1.0.0.0/8 for the two devices *)
AssignAddresses(s) ==
    LET ip == AssignAll(s.ipv4, s.internetDevices, 1)
        ifaces == [k \in 1..Len(s.internetDevices) |-> IfaceOf(ip, s.internetDevices, k)]
    IN [s EXCEPT
          !.ipv4 = ip,
          !.internetIpIfaces = ifaces,
          !.remoteHostAddr = GetAddress(ip, ifaces, 1),
          !.pc = "staticRoute",
          !.trace = Event(s, "assignAddresses")]

(* lines 76-79: the route to the UE network on the remote host *)
AddStaticRoute(s) ==
    [s EXCEPT
       !.routes = Append(@, [node |-> s.remoteHost, dest |-> UeNetwork,
                             mask |-> UeMask, interface |-> RemoteHostIfIndex]),
       !.pc = "createNodes",
       !.trace = Event(s, "staticRoute")]

CreateNodes_swapped(s) ==
    [s EXCEPT
       !.enbNodes = Create(@, s.numUe),
       !.ueNodes = Create(@, s.numEnb),
       !.pc = "done",
       !.exitCode = <<0>>,
       !.trace = Event(s, "createNodes")]

CreateNodes_validated(s) ==
    [s EXCEPT
       !.enbNodes = Create(@, IF s.numEnb = 0 THEN 1 ELSE s.numEnb),
       !.ueNodes = Create(@, IF s.numUe = 0 THEN 1 ELSE s.numUe),
       !.pc = "done",
       !.exitCode = <<0>>,
       !.trace = Event(s, "createNodes")]

(* lines 82-86: the eNB and UE node containers; main then returns *)
CreateNodes(s) ==
    [s EXCEPT
       !.enbNodes = Create(@, s.numEnb),
       !.ueNodes = Create(@, s.numUe),
       !.pc = "done",
       !.exitCode = <<0>>,
       !.trace = Event(s, "createNodes")]

-----------------------------------------------------------------------------
(* One run of main *)

NoTwin == [pc |-> "none"]

Init == run \in {InitRun(a) : a \in CommandLines} /\ twin = NoTwin

DoParseArgs ==
    /\ run.pc = "parseArgs"
    /\ run' = ParseArgs(run)
    /\ UNCHANGED twin

DoSetDefaults ==
    /\ run.pc = "setDefaults"
    /\ run' = SetDefaults(run)
    /\ UNCHANGED twin

DoCreateHelpers ==
    /\ run.pc = "createHelpers"
    /\ run' = CreateHelpers(run)
    /\ UNCHANGED twin

DoConfigureDefaults ==
    /\ run.pc = "configStore"
    /\ run' = ConfigureDefaults(run)
    /\ UNCHANGED twin

DoParseArgsAgain ==
    /\ run.pc = "parseAgain"
    /\ run' = ParseArgsAgain(run)
    /\ UNCHANGED twin

DoCreateRemoteHost ==
    /\ run.pc = "remoteHost"
    /\ run' = CreateRemoteHost(run)
    /\ UNCHANGED twin

DoCreateInternetLink ==
    /\ run.pc = "p2pLink"
    /\ run' = CreateInternetLink(run)
    /\ UNCHANGED twin

DoAssignAddresses ==
    /\ run.pc = "assignAddresses"
    /\ run' = AssignAddresses(run)
    /\ UNCHANGED twin

DoAddStaticRoute ==
    /\ run.pc = "staticRoute"
    /\ run' = AddStaticRoute(run)
    /\ UNCHANGED twin

DoCreateNodes ==
    /\ run.pc = "createNodes"
    /\ run' = CreateNodes(run)
    /\ UNCHANGED twin

Next ==
    \/ DoParseArgs
    \/ DoSetDefaults
    \/ DoCreateHelpers
    \/ DoConfigureDefaults
    \/ DoParseArgsAgain
    \/ DoCreateRemoteHost
    \/ DoCreateInternetLink
    \/ DoAssignAddresses
    \/ DoAddStaticRoute
    \/ DoCreateNodes

Spec == Init /\ [][Next]_vars

-----------------------------------------------------------------------------
(* Two runs of main side by side.  The second run is given the command  *)
(* line of the first with the --simTime and --interPacketInterval        *)
(* arguments left out, or with other values for them; two command lines  *)
(* that differ only in these arguments have the same second run of the   *)
(* first kind.  The texts of these arguments are ones the parser         *)
(* accepts.  main is deterministic, so the runs are stepped together.    *)

Strip(a) == SelectSeq(a, LAMBDA x : x.name \notin TimingNames)

Retime(a) ==
    [i \in 1..Len(a) |->
        IF a[i].name \in TimingNames
        THEN [name |-> a[i].name, text |-> TxtHalf]
        ELSE a[i]]

TimingAccepted(a) ==
    \A i \in 1..Len(a) :
        a[i].name \in TimingNames => ExtractDouble(Decimal(0), a[i].text).ok

InitTwin ==
    \E a \in CommandLines :
        /\ TimingAccepted(a)
        /\ run = InitRun(a)
        /\ twin \in {InitRun(Strip(a)), InitRun(Retime(a))}

TwinParseArgs ==
    /\ run.pc = "parseArgs"
    /\ run' = ParseArgs(run)
    /\ twin' = ParseArgs(twin)

TwinSetDefaults ==
    /\ run.pc = "setDefaults"
    /\ run' = SetDefaults(run)
    /\ twin' = SetDefaults(twin)

TwinCreateHelpers ==
    /\ run.pc = "createHelpers"
    /\ run' = CreateHelpers(run)
    /\ twin' = CreateHelpers(twin)

TwinConfigureDefaults ==
    /\ run.pc = "configStore"
    /\ run' = ConfigureDefaults(run)
    /\ twin' = ConfigureDefaults(twin)

TwinParseArgsAgain ==
    /\ run.pc = "parseAgain"
    /\ run' = ParseArgsAgain(run)
    /\ twin' = ParseArgsAgain(twin)

TwinCreateRemoteHost ==
    /\ run.pc = "remoteHost"
    /\ run' = CreateRemoteHost(run)
    /\ twin' = CreateRemoteHost(twin)

TwinCreateInternetLink ==
    /\ run.pc = "p2pLink"
    /\ run' = CreateInternetLink(run)
    /\ twin' = CreateInternetLink(twin)

TwinAssignAddresses ==
    /\ run.pc = "assignAddresses"
    /\ run' = AssignAddresses(run)
    /\ twin' = AssignAddresses(twin)

TwinAddStaticRoute ==
    /\ run.pc = "staticRoute"
    /\ run' = AddStaticRoute(run)
    /\ twin' = AddStaticRoute(twin)

TwinCreateNodes ==
    /\ run.pc = "createNodes"
    /\ run' = CreateNodes(run)
    /\ twin' = CreateNodes(twin)

NextTwin ==
    \/ TwinParseArgs
    \/ TwinSetDefaults
    \/ TwinCreateHelpers
    \/ TwinConfigureDefaults
    \/ TwinParseArgsAgain
    \/ TwinCreateRemoteHost
    \/ TwinCreateInternetLink
    \/ TwinAssignAddresses
    \/ TwinAddStaticRoute
    \/ TwinCreateNodes

SpecTwin == InitTwin /\ [][NextTwin]_vars

-----------------------------------------------------------------------------
(* Vocabulary of the properties *)

Done(s) == s.pc = "done"

Exited(s) == s.pc = "exited"

(* Whether cmd.Parse accepts the whole command line *)
CmdAccepts(a) == CmdParse(InitRun(a)).ok

Given(a, name) == \E i \in 1..Len(a) : a[i].name = name

(* The text of the last argument of that name *)
LastText(a, name) ==
    a[CHOOSE i \in 1..Len(a) :
          a[i].name = name /\ \A j \in (i + 1)..Len(a) : a[j].name # name].text

(* The option is given, last as the numeral of n *)
GivenAs(a, name, n) == Given(a, name) /\ LastText(a, name) = DecimalText(n)

(* The option is given, last with one of these texts *)
GivenIn(a, name, texts) == Given(a, name) /\ LastText(a, name) \in texts

(* The text is an integer written out: digits, a minus sign before them *)
WritesInteger(txt) ==
    /\ Len(txt) >= 1
    /\ \A i \in 2..Len(txt) : IsDigit(txt[i])
    /\ IsDigit(txt[1]) \/ (txt[1] = "-" /\ Len(txt) >= 2)

WrittenInteger(txt) ==
    IF txt[1] = "-" THEN 0 - DigitsValue(txt, 2, Len(txt) + 1)
    ELSE DigitsValue(txt, 1, Len(txt) + 1)

(* The place of the first character of the text that is no white space *)
TextStart(txt) ==
    CHOOSE i \in 1..(Len(txt) + 1) :
        /\ \A k \in 1..(i - 1) : txt[k] \in WhiteSpace
        /\ i <= Len(txt) => txt[i] \notin WhiteSpace

(* The place after the digits that start at d *)
DigitsStop(txt, d) ==
    CHOOSE j \in d..(Len(txt) + 1) :
        /\ \A k \in d..(j - 1) : IsDigit(txt[k])
        /\ j <= Len(txt) => ~IsDigit(txt[j])

HasSignAt(txt, i) == i <= Len(txt) /\ txt[i] \in {"+", "-"}

SignAt(txt, i) == IF i <= Len(txt) /\ txt[i] = "-" THEN 0 - 1 ELSE 1

AfterSign(txt, i) == IF HasSignAt(txt, i) THEN i + 1 ELSE i

(* The integer at the head of the text *)
HeadInteger(txt) ==
    SignAt(txt, TextStart(txt))
      * DigitsValue(txt, AfterSign(txt, TextStart(txt)),
                    DigitsStop(txt, AfterSign(txt, TextStart(txt))))

(* The decimal number at the head of the text: digits, a point and more *)
(* digits, an exponent                                                  *)
FractionAt(txt, e1) == IF e1 <= Len(txt) /\ txt[e1] = "." THEN e1 + 1 ELSE e1

ExponentOf(txt, e2) ==
    IF e2 <= Len(txt) /\ txt[e2] \in {"e", "E"}
    THEN SignAt(txt, e2 + 1)
           * DigitsValue(txt, AfterSign(txt, e2 + 1),
                         DigitsStop(txt, AfterSign(txt, e2 + 1)))
    ELSE 0

HeadDecimalFrom(txt, sign, d, e1, f, e2) ==
    Normalise(sign * (DigitsValue(txt, d, e1) * Power10(e2 - f)
                        + DigitsValue(txt, f, e2)),
              ExponentOf(txt, e2) - (e2 - f))

HeadDecimalAt(txt, sign, d, e1) ==
    HeadDecimalFrom(txt, sign, d, e1, FractionAt(txt, e1),
                    DigitsStop(txt, FractionAt(txt, e1)))

HeadDecimal(txt) ==
    HeadDecimalAt(txt, SignAt(txt, TextStart(txt)), AfterSign(txt, TextStart(txt)),
                  DigitsStop(txt, AfterSign(txt, TextStart(txt))))

(* The truth value a text gives a boolean option *)
FlagOf(txt) ==
    IF ToLower(txt) \in {TxtTrue, <<"t">>} THEN TRUE
    ELSE IF ToLower(txt) \in {TxtFalse, <<"f">>} THEN FALSE
    ELSE HeadInteger(txt) = 1

(* The places of the arguments of that name, and of those with a text *)
Places(a, name) == {i \in 1..Len(a) : a[i].name = name}

TextPlaces(a, name) == {i \in Places(a, name) : a[i].text # TxtBare}

LastPlace(places) == CHOOSE i \in places : \A j \in places : j <= i

(* What the parameter of a count, a time and a flag is after the command *)
(* line was parsed, the flag after that many parses                      *)
ReadCount(a, name, dflt) ==
    IF Given(a, name) THEN HeadInteger(LastText(a, name)) % (UInt16Max + 1)
    ELSE dflt

ReadTime(a, name, dflt) ==
    IF Given(a, name) THEN HeadDecimal(LastText(a, name)) ELSE dflt

Negated(b, times) == IF times % 2 = 0 THEN b ELSE ~b

ReadFlag(a, name, dflt, parses) ==
    IF TextPlaces(a, name) = {}
    THEN Negated(dflt, parses * Cardinality(Places(a, name)))
    ELSE Negated(FlagOf(a[LastPlace(TextPlaces(a, name))].text),
                 Cardinality({i \in Places(a, name) :
                                  i > LastPlace(TextPlaces(a, name))}))

(* How many times the run has parsed the command line *)
ParsesDone(s) ==
    Cardinality({i \in 1..Len(s.trace) : s.trace[i] = "parseArguments"})

(* The steps main executes, in order *)
MainSequence ==
    <<"parseArguments", "setDefaults", "createHelpers", "configStore",
      "parseArguments", "remoteHost", "p2pLink", "assignAddresses",
      "staticRoute", "createNodes">>

(* The steps as the specification lists them: one parse only *)
ListedSequence ==
    <<"parseArguments", "setDefaults", "createHelpers", "configStore",
      "remoteHost", "p2pLink", "assignAddresses",
      "staticRoute", "createNodes">>

IsPrefix(p, q) == Len(p) <= Len(q) /\ \A i \in 1..Len(p) : p[i] = q[i]

Occurs(e, tr) == \E i \in 1..Len(tr) : tr[i] = e

Position(e, tr) == CHOOSE i \in 1..Len(tr) : tr[i] = e /\ \A j \in 1..(i - 1) : tr[j] # e

(* The positions of main, in program order *)
PcOrder ==
    <<"parseArgs", "setDefaults", "createHelpers", "configStore", "parseAgain",
      "remoteHost", "p2pLink", "assignAddresses", "staticRoute", "createNodes",
      "done">>

PcValues == {PcOrder[k] : k \in 1..Len(PcOrder)} \cup {"exited"}

-----------------------------------------------------------------------------
(* C1: on every run a "simulation run started" event occurs after          *)
(* construction and before main returns.  Stated as the final result:      *)
(* when main has returned, the run of the simulation has been started.     *)
(* main returns after creating the node containers without starting it.    *)
C1_SimulationStarted == Done(run) => Occurs("simulatorRun", run.trace)

-----------------------------------------------------------------------------
(* C2: for every combination of parameter values main executes exactly   *)
(* the listed steps in the listed order with no other step in between,    *)
(* the command line being parsed once: when main has returned, the steps  *)
(* it has executed are the eight listed ones (the remote host and the     *)
(* link counted apart).  main parses the command line a second time       *)
(* after the config store.                                                *)
C2_ListedSequenceOnly == Done(run) => run.trace = ListedSequence

-----------------------------------------------------------------------------
(* C3 as claimed: with none of the six options given the setup uses     *)
(* numEnb = 1, numUe = 1, simTime = 2, interPacketInterval = 100,          *)
(* harq = true and rlcAm = false; an option that is given makes the        *)
(* parameter take the given value, and every option not given keeps its    *)
(* default.  The given value is the one the text writes: an integer, a     *)
(* decimal number, true or false.                                          *)
C3_GivenValueTaken ==
    Done(run) =>
        /\ ~Given(run.argv, "numEnb") => run.numEnb = DefaultNumEnb
        /\ ~Given(run.argv, "numUe") => run.numUe = DefaultNumUe
        /\ ~Given(run.argv, "simTime") => run.simTime = Decimal(DefaultSimTime)
        /\ ~Given(run.argv, "interPacketInterval") =>
               run.interPacketInterval = Decimal(DefaultInterPacketInterval)
        /\ ~Given(run.argv, "harq") => run.harqEnabled = TRUE
        /\ ~Given(run.argv, "rlcAm") => run.rlcAmEnabled = FALSE
        /\ \A name \in {"numEnb", "numUe"} :
               (Given(run.argv, name) /\ WritesInteger(LastText(run.argv, name))) =>
                   run[name] = WrittenInteger(LastText(run.argv, name))
        /\ \A name \in TimingNames :
               (Given(run.argv, name) /\ WritesInteger(LastText(run.argv, name))) =>
                   run[name] = Decimal(WrittenInteger(LastText(run.argv, name)))
        /\ GivenIn(run.argv, "harq", {TxtTrue, TxtFalse}) =>
               run.harqEnabled = (LastText(run.argv, "harq") = TxtTrue)
        /\ GivenIn(run.argv, "rlcAm", {TxtTrue, TxtFalse}) =>
               run.rlcAmEnabled = (LastText(run.argv, "rlcAm") = TxtTrue)

(* C3 amended: the defaults are as claimed and an option not given keeps   *)
(* its default.  An option given with a text sets the parameter to what    *)
(* the parser reads from the text, the last such argument deciding: for    *)
(* numEnb and numUe the integer at the head of the text (white space and   *)
(* a sign may precede the digits, what follows them is ignored) modulo     *)
(* 65536; for simTime and interPacketInterval the decimal number at the    *)
(* head of the text; for harq and rlcAm true or t, false or f in either    *)
(* letter case, or else the integer 0 or 1 at the head of the text.  A     *)
(* boolean option given without text negates the parameter on each parse   *)
(* of the command line.  Each setup call uses the value the parameter has  *)
(* when the call is made.                                                  *)
C3_Parameters ==
    (run.pc \notin {"parseArgs", "exited"}) =>
        /\ run.numEnb = ReadCount(run.argv, "numEnb", DefaultNumEnb)
        /\ run.numUe = ReadCount(run.argv, "numUe", DefaultNumUe)
        /\ run.simTime = ReadTime(run.argv, "simTime", Decimal(DefaultSimTime))
        /\ run.interPacketInterval =
               ReadTime(run.argv, "interPacketInterval",
                        Decimal(DefaultInterPacketInterval))
        /\ run.harqEnabled = ReadFlag(run.argv, "harq", TRUE, ParsesDone(run))
        /\ run.rlcAmEnabled = ReadFlag(run.argv, "rlcAm", FALSE, ParsesDone(run))
        /\ DOMAIN run.defaults # {} =>
               /\ run.defaults[HarqAttr] = ReadFlag(run.argv, "harq", TRUE, 1)
               /\ run.defaults[SchedHarqAttr] = ReadFlag(run.argv, "harq", TRUE, 1)
               /\ run.defaults[RlcAmAttr] = ReadFlag(run.argv, "rlcAm", FALSE, 1)
        /\ run.mmwaveHelper.created =>
               run.mmwaveHelper.harqEnabled = ReadFlag(run.argv, "harq", TRUE, 1)
        /\ Done(run) =>
               /\ run.enbNodes = ReadCount(run.argv, "numEnb", DefaultNumEnb)
               /\ run.ueNodes = ReadCount(run.argv, "numUe", DefaultNumUe)

C3_Witness ==
    /\ Done(run)
    /\ GivenIn(run.argv, "numEnb", {TxtMinusOne})
    /\ run.numEnb = UInt16Max
    /\ run.enbNodes = UInt16Max
    /\ ~Given(run.argv, "numUe")
    /\ run.ueNodes = 1
    /\ GivenIn(run.argv, "harq", {TxtBare})
    /\ run.defaults[HarqAttr] = FALSE
    /\ run.harqEnabled = TRUE
    /\ run.simTime = [m |-> 2, e |-> 0]

-----------------------------------------------------------------------------
(* C4: at the end of setup there is exactly one remote host node, exactly  *)
(* numEnb nodes in the eNB container and exactly numUe nodes in the UE     *)
(* container, whatever the parameters are.                                 *)
C4_NodeCounts ==
    /\ run.remoteHostContainer <= 1
    /\ Done(run) =>
           /\ run.remoteHostContainer = 1
           /\ run.remoteHost = <<"remoteHost", 1>>
           /\ run.enbNodes = run.numEnb
           /\ run.ueNodes = run.numUe

C4_Witness ==
    /\ Done(run)
    /\ run.numEnb = 2
    /\ run.numUe = 0
    /\ run.enbNodes = 2
    /\ run.ueNodes = 0
    /\ run.remoteHostContainer = 1

-----------------------------------------------------------------------------
(* C5: --numUe is the number of UEs per eNB: the number of UE nodes        *)
(* created is numEnb * numUe.                                              *)
C5_UesPerEnb == Done(run) => run.ueNodes = run.numEnb * run.numUe

-----------------------------------------------------------------------------
(* C6: main validates nothing: every parsed numEnb and numUe, 0 included,  *)
(* reaches the node-creation calls unchanged, no step is skipped or        *)
(* repeated because of a parameter value, and main has no error state or   *)
(* error exit of its own: the only exit other than the return of main is   *)
(* the parser's, inside the first cmd.Parse, with status 1 on an argument  *)
(* it rejects or status 0 after printing the help.                         *)
C6_NoValidation ==
    /\ run.pc \in PcValues
    /\ ~Exited(run) =>
           \E k \in 1..Len(PcOrder) :
               /\ PcOrder[k] = run.pc
               /\ run.trace = SubSeq(MainSequence, 1, k - 1)
    /\ Exited(run) =>
           /\ ~CmdAccepts(run.argv)
           /\ run.trace = <<"parseArguments">>
           /\ run.exitCode \in {<<0>>, <<1>>}
           /\ run.exitCode = <<0>> => Given(run.argv, "PrintHelp")
    /\ (CmdAccepts(run.argv) /\ Len(run.trace) >= 1) => ~Exited(run)
    /\ Done(run) =>
           /\ run.enbNodes = CmdParse(InitRun(run.argv)).st.numEnb
           /\ run.ueNodes = CmdParse(InitRun(run.argv)).st.numUe
           /\ run.exitCode = <<0>>

C6_Witness ==
    /\ Done(run)
    /\ GivenAs(run.argv, "numEnb", 0)
    /\ GivenAs(run.argv, "numUe", 0)
    /\ run.enbNodes = 0
    /\ run.ueNodes = 0

-----------------------------------------------------------------------------
(* C7: when the static route to 7.0.0.0/255.0.0.0 is installed on the      *)
(* remote host through interface 1, the remote host has an internet stack, *)
(* its interface 0 is the loopback and its interface 1 the point-to-point  *)
(* device of the PGW link; remoteHostAddr (index 1 of the interface        *)
(* container) is the remote host's address, not the PGW's, and lies in     *)
(* network 1.0.0.0/255.0.0.0.                                              *)
C7_RouteInterface ==
    run.routes # << >> =>
        LET r == run.routes[1]
            rh == run.remoteHost
        IN /\ Len(run.routes) = 1
           /\ r.node = rh
           /\ r.dest = <<7, 0, 0, 0>>
           /\ r.mask = <<255, 0, 0, 0>>
           /\ r.interface = 1
           /\ rh \in DOMAIN run.ipv4
           /\ Len(run.ipv4[rh]) = 2
           /\ run.ipv4[rh][1] = Loopback
           /\ run.ipv4[rh][2].dev = <<"p2p", rh>>
           /\ \E k \in 1..Len(run.internetDevices) :
                  /\ run.internetDevices[k].dev = run.ipv4[rh][2].dev
                  /\ run.internetDevices[k].node = rh
           /\ \E k \in 1..Len(run.internetDevices) :
                  run.internetDevices[k].node = run.pgw
           /\ run.internetIpIfaces[2] = [node |-> rh, index |-> 1]
           /\ run.remoteHostAddr = run.ipv4[rh][r.interface + 1].addr
           /\ \A i \in 1..Len(run.ipv4[run.pgw]) :
                  run.ipv4[run.pgw][i].addr # run.remoteHostAddr
           /\ CombineMask(run.remoteHostAddr, <<255, 0, 0, 0>>) = <<1, 0, 0, 0>>

C7_Witness ==
    /\ run.pc = "createNodes"
    /\ Len(run.routes) = 1
    /\ run.remoteHostAddr = <<1, 0, 0, 2>>
    /\ run.remoteHost = <<"remoteHost", 1>>

-----------------------------------------------------------------------------
(* C8: at the end of setup the three HARQ settings written by the script   *)
(* are equal to each other and to the final value of the harq parameter,   *)
(* and the RlcAmEnabled default equals the final value of rlcAm.           *)
C8_SettingsFollowFinalParameters ==
    Done(run) =>
        /\ run.defaults[HarqAttr] = run.harqEnabled
        /\ run.defaults[SchedHarqAttr] = run.harqEnabled
        /\ run.mmwaveHelper.harqEnabled = run.harqEnabled
        /\ run.defaults[RlcAmAttr] = run.rlcAmEnabled

-----------------------------------------------------------------------------
(* C9: simTime and interPacketInterval (and minDistance, maxDistance) do   *)
(* not influence the configuration: two runs that differ only in them      *)
(* perform the same steps and hold identical defaults, helpers, addresses, *)
(* route and node counts; both ReportBufferStatusTimer defaults are 100    *)
(* microseconds whatever interPacketInterval is.                           *)
Configuration(s) ==
    [f \in DOMAIN s \ {"argv", "simTime", "interPacketInterval"} |-> s[f]]

C9_TimingIgnored ==
    /\ Configuration(run) = Configuration(twin)
    /\ \A s \in {run, twin} :
           /\ s.minDistance = 10
           /\ s.maxDistance = 150
           /\ RlcAmTimerAttr \in DOMAIN s.defaults =>
                  s.defaults[RlcAmTimerAttr] = [m |-> 1, e |-> 2]
           /\ RlcUmTimerAttr \in DOMAIN s.defaults =>
                  s.defaults[RlcUmTimerAttr] = [m |-> 1, e |-> 2]
           /\ Done(s) => {RlcAmTimerAttr, RlcUmTimerAttr} \subseteq DOMAIN s.defaults

C9_Witness ==
    /\ Done(run)
    /\ Done(twin)
    /\ run.interPacketInterval = [m |-> 5, e |-> 1]
    /\ twin.interPacketInterval = [m |-> 1, e |-> 2]
    /\ ~Given(twin.argv, "interPacketInterval")
    /\ GivenAs(run.argv, "numEnb", 2)
    /\ run.enbNodes = 2
    /\ run.defaults[RlcAmTimerAttr] = [m |-> 1, e |-> 2]

====
